---- MODULE Spec2Model ----
(***************************************************************************)
(* A model of the plugin registry of factories/factory.py (class Factory) *)
(* and of the module loader beneath it.                                   *)
(*                                                                         *)
(* Strings of the program (paths, file names, module addresses) are       *)
(* sequences of one-character strings, so that splitting, joining,        *)
(* substring tests and the candidate-file pattern are computed, not       *)
(* assumed.  A loaded type object is a record [decl, load]: decl names    *)
(* the class statement, load is 0 for an object that lives in the host's  *)
(* module cache (imported or defined by the caller) and the number of the *)
(* direct load that created it otherwise, so that two direct loads of one *)
(* file give two different objects.                                        *)
(***************************************************************************)
EXTENDS Integers, Sequences, FiniteSets, TLC

VARIABLES
    _plugins,           \* self._plugins: the Plugin Entry sequence
    _add_pathed_paths,  \* self._add_pathed_paths: the dict path -> mechanism,
                        \* as the sequence of its <<key, value>> pairs in
                        \* insertion order
    _version,           \* self._version: the versioning rule, or None
    init_args,          \* the arguments paths, envvar and mechanism the
                        \* registry was constructed with
    last                \* the last call: operation, argument, outcome

vars == <<_plugins, _add_pathed_paths, _version, init_args, last>>

(***************************************************************************)
(* Bounds of the model.                                                    *)
(***************************************************************************)
MaxPlugins == 2
MaxPaths == 2

(***************************************************************************)
(* Loading mechanism enums (Factory.GUESS, LOAD_SOURCE, IMPORTABLE) and    *)
(* the interpreter generation chosen at import time of factory.py.         *)
(***************************************************************************)
GUESS == 0
LOAD_SOURCE == 1
IMPORTABLE == 2
Mechanisms == {GUESS, LOAD_SOURCE, IMPORTABLE}
py_version == 3

\* Python's None, by the kind of value it stands in for: a rule or a
\* version, a module address, a module, a plugin, a count
None == "None"
NoFile == << >>
NoAddress == << >>
NoModule == [found |-> FALSE, name |-> << >>, file |-> NoFile, objects |-> << >>]
NoPlugin == [decl |-> "None", load |-> 0]
NoCount == -1

(***************************************************************************)
(* String helpers: Python's str and os.path functions on POSIX.            *)
(***************************************************************************)
Last(s) == s[Len(s)]
Front(s) == SubSeq(s, 1, Len(s) - 1)
Reverse(s) == [i \in 1..Len(s) |-> s[Len(s) + 1 - i]]
SeqToSet(s) == {s[i] : i \in 1..Len(s)}

StartsWith(s, p) == Len(p) <= Len(s) /\ SubSeq(s, 1, Len(p)) = p
EndsWith(s, p) == Len(p) <= Len(s) /\ SubSeq(s, Len(s) - Len(p) + 1, Len(s)) = p
\* sub in s
Contains(s, sub) ==
    \E i \in 1..(Len(s) - Len(sub) + 1) : SubSeq(s, i, i + Len(sub) - 1) = sub

\* positions of character c in s
Positions(s, c) == {i \in 1..Len(s) : s[i] = c}
MaxOf(S) == CHOOSE x \in S : \A y \in S : y <= x
MinOf(S) == CHOOSE x \in S : \A y \in S : x <= y

\* s.split(c)
RECURSIVE str_split(_, _)
str_split(s, c) ==
    IF Positions(s, c) = {} THEN <<s>>
    ELSE LET i == MinOf(Positions(s, c))
         IN  <<SubSeq(s, 1, i - 1)>> \o str_split(SubSeq(s, i + 1, Len(s)), c)

\* sep.join(parts)
RECURSIVE str_join(_, _)
str_join(sep, parts) ==
    IF Len(parts) = 0 THEN <<>>
    ELSE IF Len(parts) = 1 THEN parts[1]
    ELSE parts[1] \o sep \o str_join(sep, Tail(parts))

\* os.path.join(a, b)
path_join2(a, b) ==
    IF StartsWith(b, <<"/">>) THEN b
    ELSE IF a = <<>> \/ EndsWith(a, <<"/">>) THEN a \o b
    ELSE a \o <<"/">> \o b

\* os.path.join(*parts), parts non-empty
RECURSIVE path_join(_)
path_join(parts) ==
    IF Len(parts) = 1 THEN parts[1]
    ELSE path_join2(path_join(Front(parts)), Last(parts))

\* os.path.basename(p)
basename(p) ==
    IF Positions(p, "/") = {} THEN p
    ELSE SubSeq(p, MaxOf(Positions(p, "/")) + 1, Len(p))

\* index of the dot that starts the extension of p, 0 when there is none
\* (os.path.splitext: the last dot of the last component, leading dots of
\* that component excluded)
ExtDot(p) ==
    LET slash == IF Positions(p, "/") = {} THEN 0 ELSE MaxOf(Positions(p, "/"))
        dots == {i \in Positions(p, ".") : i > slash}
        d == IF dots = {} THEN 0 ELSE MaxOf(dots)
    IN  IF d = 0 THEN 0
        ELSE IF \E k \in (slash + 1)..(d - 1) : p[k] # "." THEN d
        ELSE 0

\* os.path.splitext(p)[0] and [1], d the index of the dot
root_before(p, d) == IF d = 0 THEN p ELSE SubSeq(p, 1, d - 1)
ext_from(p, d) == IF d = 0 THEN <<>> ELSE SubSeq(p, d, Len(p))
splitext_root(p) == root_before(p, ExtDot(p))
splitext_ext(p) == ext_from(p, ExtDot(p))

(***************************************************************************)
(* The host the registry runs on: a file system, the host's import system *)
(* (sys.path, sys.modules) and the classes the files define.  The file    *)
(* system does not change while the registry runs.                        *)
(***************************************************************************)
DirA == <<"/", "a">>
DirSub == <<"/", "a", "/", "s", "u", "b">>
DirB == <<"/", "b">>
DirBSlash == <<"/", "b", "/">>
DirC == <<"/", "c">>
DirMissing == <<"/", "n", "o">>
EmptyPath == <<>>
Cwd == <<"/">>
FileGood == <<"/", "a", "/", "g", "o", "o", "d", ".", "p", "y">>
FileBad == <<"/", "a", "/", "b", "a", "d", ".", "p", "y">>
FilePriv == <<"/", "a", "/", "_", "p", "r", "i", "v", ".", "p", "y">>
FileSubInit == <<"/", "a", "/", "s", "u", "b", "/", "_", "_", "i", "n", "i", "t", "_", "_", ".", "p", "y">>
FileOther == <<"/", "a", "/", "s", "u", "b", "/", "o", "t", "h", "e", "r", ".", "p", "y">>
FileTime == <<"/", "b", "/", "t", "i", "m", "e", ".", "p", "y">>
FileJson == <<"/", "b", "/", "j", "s", "o", "n", ".", "p", "y">>
FileCJson == <<"/", "c", "/", "j", "s", "o", "n", ".", "p", "y">>
FileLibJson == <<"/", "l", "i", "b", "/", "j", "s", "o", "n", ".", "p", "y">>
NameGood == <<"g", "o", "o", "d">>
NameTime == <<"t", "i", "m", "e">>
NameJson == <<"j", "s", "o", "n">>
NameSub == <<"s", "u", "b">>
NameSubOther == <<"s", "u", "b", ".", "o", "t", "h", "e", "r">>
ExtPy == <<".", "p", "y">>
ExtPyc == <<".", "p", "y", "c">>
ExtPyd == <<".", "p", "y", "d">>
InitStem == <<"_", "_", "i", "n", "i", "t", "_", "_">>

\* the directories that exist, and os.listdir of each: sub-directories and
\* files, in the order os.walk reports them
Dirs == {DirA, DirSub, DirB, DirC}
ListFiles(dir) ==
    IF dir = DirA THEN <<basename(FileBad), basename(FileGood), basename(FilePriv)>>
    ELSE IF dir = DirSub THEN <<basename(FileSubInit), basename(FileOther)>>
    ELSE IF dir = DirB THEN <<basename(FileTime), basename(FileJson)>>
    ELSE IF dir = DirC THEN <<basename(FileCJson)>>
    ELSE <<>>
ListDirs(dir) == IF dir = DirA THEN <<NameSub>> ELSE <<>>
AllFiles == {FileGood, FileBad, FilePriv, FileSubInit, FileOther, FileTime,
             FileJson, FileCJson, FileLibJson}

\* os.path.realpath(os.path.normpath(x)): no symbolic links on this host; a
\* trailing separator is dropped, the empty path is the working directory
normpath(abs) == IF Len(abs) > 1 /\ EndsWith(abs, <<"/">>) THEN Front(abs) ELSE abs
realpath(x) == normpath(IF StartsWith(x, <<"/">>) THEN x ELSE path_join2(Cwd, x))
\* the paths the registry meets on this host, normalised once
NormPaths ==
    [x \in {DirA, DirSub, DirB, DirBSlash, DirC, DirMissing, EmptyPath} \cup AllFiles |->
        realpath(x)]
norm_path(x) == IF x \in DOMAIN NormPaths THEN NormPaths[x] ELSE realpath(x)

is_same_path(path_a, path_b) == norm_path(path_a) = norm_path(path_b)

isdir(path) == norm_path(path) \in Dirs
exists(path) == norm_path(path) \in Dirs \cup AllFiles

\* The class statements and other objects of the host.  name is __name__,
\* version the class attribute the versioning rule reads.
Abstract == "Abs"
Decls == {"Abs", "Unrelated", "helper", "good.Handler", "other.Handler",
          "json.Handler", "bad.Handler", "user.Tool", "cjson.Handler",
          "lib.Handler",
          "tool.Plain", "tool.ByClass", "tool.ByStatic", "tool.Mixed"}
\* The types tool.* are written by the caller for a factory configured with
\* plugin_identifier = 'name' and versioning_identifier = 'version'.  name
\* is what the identifier attribute is or, when it is defined as a method,
\* what calling it with no argument returns; version likewise.
DeclName(d) ==
    CASE d = "Abs" -> "Abs"
      [] d = "Unrelated" -> "Unrelated"
      [] d = "helper" -> "helper"
      [] d \in {"good.Handler", "other.Handler", "json.Handler", "bad.Handler",
                "cjson.Handler", "lib.Handler"} -> "Handler"
      [] d = "user.Tool" -> "Tool"
      [] d = "tool.Plain" -> "Plain"
      [] d = "tool.ByClass" -> "ByClass"
      [] d = "tool.ByStatic" -> "ByStatic"
      [] d = "tool.Mixed" -> "Mixed"
DeclVersion(d) ==
    CASE d \in {"other.Handler", "json.Handler", "tool.ByClass"} -> 2
      [] d \in {"user.Tool", "tool.ByStatic"} -> 0
      [] OTHER -> 1
\* How the class statement defines the identifier attribute and the version
\* attribute: as a plain value, as a classmethod or as a staticmethod.
NameForm(d) ==
    CASE d \in {"tool.ByClass", "tool.Mixed"} -> "classmethod"
      [] d = "tool.ByStatic" -> "staticmethod"
      [] OTHER -> "value"
VersionForm(d) ==
    CASE d = "tool.ByClass" -> "classmethod"
      [] d \in {"tool.ByStatic", "tool.Mixed"} -> "staticmethod"
      [] OTHER -> "value"
\* The function object getattr gives for a staticmethod.  It is neither a
\* string nor a number: it stands here as a name, and as a version, that no
\* class statement gives.
FunctionName == "<function>"
FunctionVersion == -2
\* inspect.isclass(obj)
isclass(obj) == obj.decl # "helper"
\* issubclass(obj, self._abstract): a class is a subclass of itself
issubclass(obj) == obj.decl \notin {"Unrelated", "helper"}

\* an object of the module cache, and the object a direct load number n makes
Cached(d) == [decl |-> d, load |-> 0]
Loaded(d, n) == [decl |-> d, load |-> n]
AbstractType == Cached(Abstract)

\* What executing each plugin file gives: ok is FALSE when the file raises
\* (a syntax error, an exception at module scope); items are the names
\* dir(module) lists, in its order: "local" is a class statement of the file,
\* "ref" an object the file imports from the module cache.
FileModule(file) ==
    CASE file = FileGood ->
            [ok |-> TRUE, items |-> << [kind |-> "ref", decl |-> "Abs"],
                                       [kind |-> "local", decl |-> "good.Handler"],
                                       [kind |-> "ref", decl |-> "helper"] >>]
      [] file = FileOther ->
            [ok |-> TRUE, items |-> << [kind |-> "local", decl |-> "other.Handler"] >>]
      [] file = FileTime ->
            [ok |-> TRUE, items |-> << [kind |-> "ref", decl |-> "Unrelated"] >>]
      [] file = FileJson ->
            [ok |-> TRUE, items |-> << [kind |-> "ref", decl |-> "good.Handler"],
                                       [kind |-> "local", decl |-> "json.Handler"] >>]
      [] file = FileBad ->
            [ok |-> FALSE, items |-> << [kind |-> "local", decl |-> "bad.Handler"] >>]
      [] file = FileCJson ->
            [ok |-> TRUE, items |-> << [kind |-> "ref", decl |-> "Abs"],
                                       [kind |-> "local", decl |-> "cjson.Handler"] >>]
      [] file = FileLibJson ->
            [ok |-> TRUE, items |-> << [kind |-> "local", decl |-> "lib.Handler"] >>]
      [] OTHER -> [ok |-> FALSE, items |-> << >>]

\* the objects of a module made from file by load number n (0: imported)
ModuleObjects(file, n) ==
    LET its == FileModule(file).items
    IN  [i \in 1..Len(its) |->
            IF its[i].kind = "local" THEN Loaded(its[i].decl, n)
            ELSE Cached(its[i].decl)]

\* __import__(name): DirA is on sys.path, so its files and the package sub
\* import; time is a built-in module (no __file__), json a module found in
\* a library directory that sys.path lists before any plugin directory.
\* "fail" is any exception of the import.
import(name) ==
    CASE name = NameGood -> [ok |-> TRUE, file |-> FileGood]
      [] name = NameSub -> [ok |-> TRUE, file |-> FileSubInit]
      [] name = NameSubOther -> [ok |-> TRUE, file |-> FileOther]
      [] name = NameTime -> [ok |-> TRUE, file |-> NoFile]
      [] name = NameJson -> [ok |-> TRUE, file |-> FileLibJson]
      [] OTHER -> [ok |-> FALSE, file |-> NoFile]

\* sys.modules[name] after a successful import: the module and its objects
module_of(name, file) ==
    [found |-> TRUE, name |-> name, file |-> file,
     objects |-> IF file \in {FileGood, FileOther, FileLibJson}
                 THEN ModuleObjects(file, 0) ELSE << >>]
sys_modules(name) == module_of(name, import(name).file)

(***************************************************************************)
(* Module Loader.                                                          *)
(***************************************************************************)
Digits == {"0", "1", "2", "3", "4", "5", "6", "7", "8", "9"}
Letters == {"a", "b", "c", "d", "e", "f", "g", "h", "i", "j", "k", "l", "m",
            "n", "o", "p", "q", "r", "s", "t", "u", "v", "w", "x", "y", "z",
            "A", "B", "C", "D", "E", "F", "G", "H", "I", "J", "K", "L", "M",
            "N", "O", "P", "Q", "R", "S", "T", "U", "V", "W", "X", "Y", "Z"}
WordChars == Letters \cup Digits \cup {"_"}

\* Factory._PY_CHECK.match(filename):  ^[^_ 0-9]+?[\w]+?(\.py$|\.pyc$)
PY_CHECK(filename) ==
    \E i \in 1..Len(filename) : \E j \in 1..Len(filename) :
        /\ \A k \in 1..i : filename[k] \notin ({"_", " "} \cup Digits)
        /\ i + j < Len(filename)
        /\ \A k \in (i + 1)..(i + j) : filename[k] \in WordChars
        /\ SubSeq(filename, i + j + 1, Len(filename)) \in {ExtPy, ExtPyc}

RECURSIVE address_exts(_, _, _, _)
\* "if ext in package_name: package_name = os.path.splitext(package_name)[0]"
strip_ext(package_name, ext) ==
    IF Contains(package_name, ext) THEN splitext_root(package_name)
    ELSE package_name
\* the try around __import__(package_name)
try_package(directory, part, package_parts, i, package_name) ==
    IF import(package_name).ok
    THEN [name |-> package_name, package_parts |-> package_parts]
    ELSE address_exts(directory, part, package_parts, i + 1)
\* one extension: the test for __init__ + ext, then the package name of the
\* parts gathered so far
try_ext(directory, part, package_parts, i, ext) ==
    IF exists(path_join2(directory, InitStem \o ext))
    THEN address_exts(directory, part, package_parts, i + 1)
    ELSE try_package(directory, part, Append(package_parts, part), i,
                     strip_ext(str_join(<<".">>,
                                        Reverse(Append(package_parts, part))),
                               ext))
\* The for-loop over the three extensions inside _module_address, from the
\* i-th extension on.  Gives the address found, or None and the grown
\* package_parts.
address_exts(directory, part, package_parts, i) ==
    IF i > 3 THEN [name |-> NoAddress, package_parts |-> package_parts]
    ELSE try_ext(directory, part, package_parts, i, <<ExtPy, ExtPyc, ExtPyd>>[i])

\* The while-loop of _module_address over the path parts.
RECURSIVE address_walk(_, _)
\* after the for-loop gave r: the address, or "package_parts.append(part);
\* parts = parts[:-1]" and the next turn
walk_on(parts, r) ==
    IF r.name # NoAddress THEN r.name
    ELSE address_walk(Front(parts), Append(r.package_parts, Last(parts)))
address_walk(parts, package_parts) ==
    IF Len(parts) <= 1 THEN NoAddress
    ELSE walk_on(parts, address_exts(path_join(Front(parts)), Last(parts),
                                     package_parts, 1))

\* Factory._module_address(filepath).  raised: mod.__file__ of a module that
\* has none (AttributeError), outside the try.
lone_address(filepath, lone_name, mod) ==
    IF mod.ok /\ mod.file = NoFile THEN [raised |-> TRUE, name |-> NoAddress]
    ELSE IF mod.ok /\ is_same_path(filepath, mod.file)
    THEN [raised |-> FALSE, name |-> lone_name]
    ELSE [raised |-> FALSE,
          name |-> address_walk(str_split(filepath, "/"), << >>)]
lone_import(filepath, lone_name) ==
    lone_address(filepath, lone_name, import(lone_name))
_module_address(filepath) ==
    lone_import(filepath, splitext_root(basename(filepath)))

\* Factory._mechanism_import(filepath): the module of sys.modules, or None
module_at(a) ==
    IF a.raised THEN [raised |-> TRUE, module |-> NoModule]
    ELSE IF a.name # NoAddress
    THEN [raised |-> FALSE, module |-> sys_modules(a.name)]
    ELSE [raised |-> FALSE, module |-> NoModule]
_mechanism_import(filepath) == module_at(_module_address(filepath))

\* Factory._mechanism_load(filepath) as load number n: the module, or None
\* when the load raised.  Interpreter 3 hands every file to SourceFileLoader,
\* which reads it as source text; interpreter 2 chooses by the extension.
\* whether the loader chosen for filepath runs the file to its end; ok: the
\* file itself does not raise
load_ok(filepath, ok) ==
    IF py_version = 3 THEN EndsWith(filepath, ExtPy) /\ ok
    ELSE IF EndsWith(filepath, ExtPy) THEN ok
    ELSE IF EndsWith(filepath, ExtPyc) THEN ok
    ELSE FALSE
load_file(filepath, file) ==
    IF load_ok(filepath, FileModule(file).ok)
    THEN [found |-> TRUE, name |-> splitext_root(basename(filepath)),
          file |-> file, objects |-> ModuleObjects(file, 0)]
    ELSE NoModule
\* what a load of each file gives depends on the host only, but for the
\* identity of the objects it makes: computed once, numbered at each load
Loads == [filepath \in AllFiles |-> load_file(filepath, norm_path(filepath))]
numbered(m, n) ==
    IF m.found THEN [m EXCEPT !.objects = ModuleObjects(m.file, n)] ELSE m
_mechanism_load(filepath, n) == numbered(Loads[filepath], n)

(***************************************************************************)
(* Plugin Registry: queries.                                               *)
(***************************************************************************)
\* inspect.ismethod(getattr(plugin, name)): on the type a classmethod is a
\* bound method; a staticmethod is a plain function and a value is no method
ismethod(form) == form = "classmethod"
\* the attribute itself, "return identifier": the value, or the function
uncalled(form, value, function) == IF form = "value" THEN value ELSE function

\* Factory.get_identifier(plugin): self._identifier is '__name__' unless
\* the factory was given a plugin_identifier
get_identifier(plugin) ==
    IF ismethod(NameForm(plugin.decl)) THEN DeclName(plugin.decl)
    ELSE uncalled(NameForm(plugin.decl), DeclName(plugin.decl), FunctionName)

\* Factory.get_version(plugin)
get_version(plugin) ==
    IF ismethod(VersionForm(plugin.decl)) THEN DeclVersion(plugin.decl)
    ELSE uncalled(VersionForm(plugin.decl), DeclVersion(plugin.decl), FunctionVersion)

\* the subsequence of the elements of s that satisfy Test
RECURSIVE SelectSeqBy(_, _)
SelectSeqBy(s, keep) ==
    IF s = << >> THEN << >>
    ELSE IF Head(s) \in keep THEN <<Head(s)>> \o SelectSeqBy(Tail(s), keep)
    ELSE SelectSeqBy(Tail(s), keep)

\* matching_plugins of Factory.request
matching_plugins(entries, plugin_identifier) ==
    SelectSeqBy(entries, {p \in SeqToSet(entries) : get_identifier(p) = plugin_identifier})

\* the dict of versions in which the first plugin of a version stays
version_dict_first(matching) ==
    [v \in {get_version(matching[i]) : i \in 1..Len(matching)} |->
        matching[MinOf({i \in 1..Len(matching) : get_version(matching[i]) = v})]]

\* the dict {get_version(plugin): plugin for plugin in matching}: a later
\* plugin replaces an earlier one of the same version
version_dict(matching) ==
    [v \in {get_version(matching[i]) : i \in 1..Len(matching)} |->
        matching[MaxOf({i \in 1..Len(matching) : get_version(matching[i]) = v})]]

\* request that answers with the lowest version where the code takes the
\* highest
request_lowest_version(entries, rule, plugin_identifier, version) ==
    LET matching == matching_plugins(entries, plugin_identifier)
        versions_ == version_dict(matching)
    IN  IF matching = << >> THEN NoPlugin
        ELSE IF rule = None THEN matching[1]
        ELSE IF version = NoCount THEN versions_[MinOf(DOMAIN versions_)]
        ELSE IF version \notin DOMAIN versions_ THEN NoPlugin
        ELSE versions_[version]

\* request that falls back to the highest version when the version asked
\* for is missing
request_falls_back(entries, rule, plugin_identifier, version) ==
    LET matching == matching_plugins(entries, plugin_identifier)
        versions_ == version_dict(matching)
    IN  IF matching = << >> THEN NoPlugin
        ELSE IF rule = None THEN matching[1]
        ELSE IF version = NoCount THEN versions_[MaxOf(DOMAIN versions_)]
        ELSE IF version \notin DOMAIN versions_ THEN versions_[MaxOf(DOMAIN versions_)]
        ELSE versions_[version]

\* request that answers with the first entry when nothing matches
request_never_none(entries, rule, plugin_identifier, version) ==
    LET matching == matching_plugins(entries, plugin_identifier)
        versions_ == version_dict(matching)
    IN  IF matching = << >> THEN (IF entries = << >> THEN NoPlugin ELSE entries[1])
        ELSE IF rule = None THEN matching[1]
        ELSE IF version = NoCount THEN versions_[MaxOf(DOMAIN versions_)]
        ELSE IF version \notin DOMAIN versions_ THEN NoPlugin
        ELSE versions_[version]

\* request that looks at the version asked for without a versioning rule
request_always_versions(entries, rule, plugin_identifier, version) ==
    LET matching == matching_plugins(entries, plugin_identifier)
        versions_ == version_dict(matching)
    IN  IF matching = << >> THEN NoPlugin
        ELSE IF rule = None /\ version = NoCount THEN matching[1]
        ELSE IF version = NoCount THEN versions_[MaxOf(DOMAIN versions_)]
        ELSE IF version \notin DOMAIN versions_ THEN NoPlugin
        ELSE versions_[version]

\* request that answers with the last match where the code takes the first
request_last_match(entries, rule, plugin_identifier, version) ==
    LET matching == matching_plugins(entries, plugin_identifier)
        versions_ == version_dict(matching)
    IN  IF matching = << >> THEN NoPlugin
        ELSE IF rule = None THEN matching[Len(matching)]
        ELSE IF version = NoCount THEN versions_[MaxOf(DOMAIN versions_)]
        ELSE IF version \notin DOMAIN versions_ THEN NoPlugin
        ELSE versions_[version]

\* Factory.request(plugin_identifier, version) on the entries and rule given
request_in(entries, rule, plugin_identifier, version) ==
    LET matching == matching_plugins(entries, plugin_identifier)
        versions_ == version_dict(matching)
    IN  IF matching = << >> THEN NoPlugin
        ELSE IF rule = None THEN matching[1]
        ELSE IF version = NoCount THEN versions_[MaxOf(DOMAIN versions_)]
        ELSE IF version \notin DOMAIN versions_ THEN NoPlugin
        ELSE versions_[version]

request(plugin_identifier, version) ==
    request_in(_plugins, _version, plugin_identifier, version)

\* Factory.identifiers()
identifiers_in(entries) == {get_identifier(entries[i]) : i \in 1..Len(entries)}
identifiers == identifiers_in(_plugins)

\* Factory.plugins(): one request per identifier; the list has the order of
\* the set of identifiers, so it is kept as the set of its elements
plugins_in(entries, rule) ==
    {request_in(entries, rule, id, NoCount) : id \in identifiers_in(entries)}
plugins == plugins_in(_plugins, _version)

\* plugins that hands out the entries as they are stored
plugins_raw(entries, rule, order) == entries

\* the list Factory.plugins() builds when the set of identifiers is iterated
\* in the given order
plugins_list(entries, rule, order) ==
    [i \in 1..Len(order) |-> request_in(entries, rule, order[i], NoCount)]

\* Factory.paths()
paths_in(d) == [i \in 1..Len(d) |-> d[i][1]]
paths == paths_in(_add_pathed_paths)

\* s without its element at position i
Without(s, i) == SubSeq(s, 1, i - 1) \o SubSeq(s, i + 1, Len(s))
\* sorted(values): ascending, equal values kept
RECURSIVE sorted(_)
sorted_from(s, least) ==
    <<least>> \o sorted(Without(s, MinOf({i \in 1..Len(s) : s[i] = least})))
sorted(s) == IF s = << >> THEN << >> ELSE sorted_from(s, MinOf(SeqToSet(s)))

\* get_version(plugin) of each matching plugin, in the order of the entries
version_values(matching) == [i \in 1..Len(matching) |-> get_version(matching[i])]

\* versions that leaves the values in the order of the entries
versions_unsorted(entries, rule, identifier) ==
    IF rule = None THEN << >>
    ELSE version_values(matching_plugins(entries, identifier))

\* versions that lists the versions of every entry, whatever its identifier
versions_of_all(entries, rule, identifier) ==
    IF rule = None THEN << >>
    ELSE sorted(version_values(entries))

\* Factory.versions(identifier) on the entries and rule given
versions_in(entries, rule, identifier) ==
    IF rule = None THEN << >>
    ELSE sorted(version_values(matching_plugins(entries, identifier)))
versions(identifier) == versions_in(_plugins, _version, identifier)

(***************************************************************************)
(* Plugin Registry: scanning.                                              *)
(***************************************************************************)
\* d[key] = value on a dict kept as a sequence of pairs
dict_set(d, key, value) ==
    IF \E i \in 1..Len(d) : d[i][1] = key
    THEN [i \in 1..Len(d) |-> IF d[i][1] = key THEN <<key, value>> ELSE d[i]]
    ELSE Append(d, <<key, value>>)

\* the candidate files os.walk(path) gives, in its order: the files of a
\* directory, then its sub-directories
RECURSIVE walk_dirs(_, _)
RECURSIVE walk(_)
\* "if not self._PY_CHECK.match(filename): continue"
candidates(files) == SelectSeqBy(files, {f \in SeqToSet(files) : PY_CHECK(f)})
\* os.path.join(root, filename) for each
joined(root, kept) == [i \in 1..Len(kept) |-> path_join2(root, kept[i])]
walk(root) ==
    joined(root, candidates(ListFiles(norm_path(root))))
        \o walk_dirs(root, ListDirs(norm_path(root)))
walk_dirs(root, dirs) ==
    IF dirs = << >> THEN << >>
    ELSE walk(path_join2(root, Head(dirs))) \o walk_dirs(root, Tail(dirs))

\* walk and _mechanism_import depend on the host only: computed once
Candidates == [path \in {DirA, DirSub, DirB, DirBSlash, DirC} |-> walk(path)]
ByAddress ==
    [filepath \in UNION {SeqToSet(Candidates[p]) : p \in DOMAIN Candidates} |->
        _mechanism_import(filepath)]

\* an inspection that takes the abstract itself for a plugin
RECURSIVE inspect_module_keeps_abstract(_, _)
inspect_module_keeps_abstract(objects, entries) ==
    IF objects = << >> THEN entries
    ELSE LET item == Head(objects)
         IN  IF ~isclass(item)
             THEN inspect_module_keeps_abstract(Tail(objects), entries)
             ELSE IF issubclass(item)
             THEN inspect_module_keeps_abstract(Tail(objects), Append(entries, item))
             ELSE inspect_module_keeps_abstract(Tail(objects), entries)

\* the inspection loop of add_path over dir(module_to_inspect)
RECURSIVE inspect_module(_, _)
inspect_module(objects, entries) ==
    IF objects = << >> THEN entries
    ELSE LET item == Head(objects)
         IN  IF ~isclass(item) THEN inspect_module(Tail(objects), entries)
             ELSE IF item = AbstractType THEN inspect_module(Tail(objects), entries)
             ELSE IF issubclass(item)
             THEN inspect_module(Tail(objects), Append(entries, item))
             ELSE inspect_module(Tail(objects), entries)

\* one turn of the loop of add_path over filepaths.  st is the registry
\* while the call runs: [entries, loads, raised]
\* "if not module_to_inspect: continue", then the inspection; loads is the
\* number of direct loads made so far
inspect(module_to_inspect, st, loads) ==
    IF ~module_to_inspect.found THEN [st EXCEPT !.loads = loads]
    ELSE [st EXCEPT !.entries = inspect_module(module_to_inspect.objects, @),
                    !.loads = loads]
\* the call of a loader on filepath, noted in the calls of the scan
called(st, loader, filepath) ==
    [st EXCEPT !.calls = Append(@, <<loader, filepath>>)]
\* a direct load counts when it made a module
after_load(direct, st) ==
    inspect(direct, st, IF direct.found THEN st.loads + 1 ELSE st.loads)
\* "if not module_to_inspect: if mechanism == LOAD_SOURCE or GUESS: ..."
load_unless(imported, filepath, mechanism, st) ==
    IF imported.found THEN inspect(imported, st, st.loads)
    ELSE IF mechanism \in {LOAD_SOURCE, GUESS}
    THEN after_load(_mechanism_load(filepath, st.loads + 1),
                    called(st, "load", filepath))
    ELSE inspect(NoModule, st, st.loads)
\* a scan that takes the module of the address whatever file backs it
same_file_trusting(imported, filepath, mechanism, st) ==
    IF imported.found /\ imported.file = NoFile
    THEN [st EXCEPT !.raised = TRUE]
    ELSE load_unless(imported, filepath, mechanism, st)
\* "if module_to_inspect and not is_same_path(module_to_inspect.__file__,
\* filepath): module_to_inspect = None"; __file__ of a module that has none
\* raises
same_file(imported, filepath, mechanism, st) ==
    IF imported.found /\ imported.file = NoFile
    THEN [st EXCEPT !.raised = TRUE]
    ELSE IF imported.found /\ ~is_same_path(imported.file, filepath)
    THEN load_unless(NoModule, filepath, mechanism, st)
    ELSE load_unless(imported, filepath, mechanism, st)
by_address(by, filepath, mechanism, st) ==
    IF by.raised THEN [st EXCEPT !.raised = TRUE]
    ELSE same_file(by.module, filepath, mechanism, st)
scan_file(filepath, mechanism, st) ==
    IF mechanism \in {IMPORTABLE, GUESS}
    THEN by_address(ByAddress[filepath], filepath, mechanism,
                    called(st, "import", filepath))
    ELSE by_address([raised |-> FALSE, module |-> NoModule],
                    filepath, mechanism, st)

RECURSIVE scan_files(_, _, _)
scan_files(filepaths, mechanism, st) ==
    IF filepaths = << >> \/ st.raised THEN st
    ELSE scan_files(Tail(filepaths), mechanism,
                    scan_file(Head(filepaths), mechanism, st))

\* the loop of add_path over the candidate files of path: the entries, the
\* loads made, whether it raised, and the calls of the loaders in order
scan(r, path, mechanism) ==
    scan_files(Candidates[path], mechanism,
               [entries |-> r.entries, loads |-> r.loads, raised |-> FALSE,
                calls |-> << >>])

\* an add_path that returns the number of entries the registry holds
scanned_returns_total(r, path, mechanism, current_plugin_count, st) ==
    [entries |-> st.entries,
     paths |-> dict_set(r.paths, path, mechanism),
     loads |-> st.loads,
     ret |-> IF st.raised THEN NoCount ELSE Len(st.entries),
     raised |-> st.raised]
\* Factory.add_path(path, mechanism) from registry r = [entries, paths,
\* loads]: the registry after the call, its return value, and whether it
\* raised instead of returning
scanned(r, path, mechanism, current_plugin_count, st) ==
    [entries |-> st.entries,
     paths |-> dict_set(r.paths, path, mechanism),
     loads |-> st.loads,
     ret |-> IF st.raised THEN NoCount
             ELSE Len(st.entries) - current_plugin_count,
     raised |-> st.raised]
\* add_path that leaves a path it already has as it is
add_path_skips_known(r, path, mechanism) ==
    IF path = EmptyPath \/ ~isdir(path)
    THEN [entries |-> r.entries, paths |-> r.paths, loads |-> r.loads,
          ret |-> 0, raised |-> FALSE]
    ELSE IF path \in SeqToSet(paths_in(r.paths))
    THEN [entries |-> r.entries, paths |-> r.paths, loads |-> r.loads,
          ret |-> 0, raised |-> FALSE]
    ELSE scanned(r, path, mechanism, Len(r.entries), scan(r, path, mechanism))

\* add_path that records the path before it tests it
add_path_records_first(r, path, mechanism) ==
    IF path = EmptyPath \/ ~isdir(path)
    THEN [entries |-> r.entries, paths |-> dict_set(r.paths, path, mechanism),
          loads |-> r.loads, ret |-> 0, raised |-> FALSE]
    ELSE scanned(r, path, mechanism, Len(r.entries), scan(r, path, mechanism))

add_path(r, path, mechanism) ==
    IF path = EmptyPath \/ ~isdir(path)
    THEN [entries |-> r.entries, paths |-> r.paths, loads |-> r.loads,
          ret |-> 0, raised |-> FALSE]
    ELSE scanned(r, path, mechanism, Len(r.entries), scan(r, path, mechanism))

\* the loop "for path, mechanism in path_data.items(): self.add_path(...)"
\* of reload and remove_path, which skips the paths in skip
RECURSIVE add_paths(_, _, _)
add_paths(r, path_data, skip) ==
    IF path_data = << >> \/ r.raised THEN r
    ELSE IF Head(path_data)[1] \in skip THEN add_paths(r, Tail(path_data), skip)
    ELSE add_paths(add_path(r, Head(path_data)[1], Head(path_data)[2]),
                   Tail(path_data), skip)

\* reload that does not forget the entries it has
reload_keeps_plugins(r) ==
    add_paths([entries |-> r.entries, paths |-> << >>, loads |-> r.loads,
               ret |-> NoCount, raised |-> FALSE], r.paths, {})

\* reload that walks the snapshot backwards
reload_reversed(r) ==
    add_paths([entries |-> << >>, paths |-> << >>, loads |-> r.loads,
               ret |-> NoCount, raised |-> FALSE], Reverse(r.paths), {})

\* Factory.reload()
reload(r) ==
    add_paths([entries |-> << >>, paths |-> << >>, loads |-> r.loads,
               ret |-> NoCount, raised |-> FALSE], r.paths, {})

\* remove_path that compares the keys with the path as they are written
remove_path_literal(r, path) ==
    add_paths([entries |-> << >>, paths |-> << >>, loads |-> r.loads,
               ret |-> NoCount, raised |-> FALSE], r.paths,
              {k \in SeqToSet(paths_in(r.paths)) : k = path})

\* Factory.remove_path(path)
remove_path(r, path) ==
    add_paths([entries |-> << >>, paths |-> << >>, loads |-> r.loads,
               ret |-> NoCount, raised |-> FALSE], r.paths,
              {k \in SeqToSet(paths_in(r.paths)) : is_same_path(k, path)})

\* register without the membership test
register_always_appends(entries, class_type) ==
    IF ~isclass(class_type) THEN [entries |-> entries, ret |-> FALSE]
    ELSE IF ~issubclass(class_type) THEN [entries |-> entries, ret |-> FALSE]
    ELSE [entries |-> Append(entries, class_type), ret |-> TRUE]

\* register without the subclass test
register_any_class(entries, class_type) ==
    IF ~isclass(class_type) THEN [entries |-> entries, ret |-> FALSE]
    ELSE IF class_type \notin SeqToSet(entries)
    THEN [entries |-> Append(entries, class_type), ret |-> TRUE]
    ELSE [entries |-> entries, ret |-> TRUE]

\* Factory.register(class_type)
register(entries, class_type) ==
    IF ~isclass(class_type) THEN [entries |-> entries, ret |-> FALSE]
    ELSE IF ~issubclass(class_type) THEN [entries |-> entries, ret |-> FALSE]
    ELSE IF class_type \notin SeqToSet(entries)
    THEN [entries |-> Append(entries, class_type), ret |-> TRUE]
    ELSE [entries |-> entries, ret |-> TRUE]

(***************************************************************************)
(* The registry as a state machine: one action per public operation.       *)
(*                                                                         *)
(* A direct load names its module with a fresh uuid4, so the number of a  *)
(* load only has to differ from the numbers of the objects that still     *)
(* exist.  Inside one call the loads are numbered on from the highest     *)
(* number in use; between calls the entries are renumbered 1, 2, ... in   *)
(* order of first appearance (Renumber), which keeps every equality and   *)
(* difference between entries.                                             *)
(***************************************************************************)
LoadsOf(entries) == {entries[i].load : i \in 1..Len(entries)} \ {0}
HighestLoad(entries) == IF LoadsOf(entries) = {} THEN 0 ELSE MaxOf(LoadsOf(entries))
FirstUse(entries, n) ==
    CHOOSE i \in 1..Len(entries) :
        entries[i].load = n /\ \A j \in 1..(i - 1) : entries[j].load # n
Renumber(entries) ==
    [i \in 1..Len(entries) |->
        IF entries[i].load = 0 THEN entries[i]
        ELSE [entries[i] EXCEPT !.load =
                Cardinality({entries[j].load :
                                j \in 1..FirstUse(entries, entries[i].load)} \ {0})]]

AddPathArgs == {EmptyPath, DirMissing, DirA, DirSub, DirB}
RemovePathArgs == {DirA, DirSub, DirB, DirBSlash}
\* what a caller can hand to register: objects of the module cache, and any
\* entry it got from the registry
CallerObjects == {Cached("Abs"), Cached("Unrelated"), Cached("helper"),
                  Cached("good.Handler"), Cached("user.Tool")}
LoadedObjects ==
    {Loaded(d, n) : d \in {"good.Handler", "other.Handler", "json.Handler"},
                    n \in 1..MaxPlugins}

Registry == [entries |-> _plugins, paths |-> _add_pathed_paths,
             loads |-> HighestLoad(_plugins)]

\* The record of a call: its path or class argument, ok the return value of
\* register, raised whether the call raised instead of returning, before the
\* length of _plugins when the call was made
Call(op, path, obj, ok, raised) ==
    [op |-> op, path |-> path, obj |-> obj, ok |-> ok, raised |-> raised,
     before |-> Len(_plugins), id |-> None, version |-> NoCount, list |-> << >>]

\* The record of a query: the identifier and version asked for, obj the
\* plugin returned (request), list the list returned (versions, plugins)
Asked(op, id, version, obj, list) ==
    [op |-> op, path |-> EmptyPath, obj |-> obj, ok |-> FALSE, raised |-> FALSE,
     before |-> Len(_plugins), id |-> id, version |-> version, list |-> list]

\* The arguments of the constructor.  paths is None, a list of paths or one
\* path given as a string; envvar is the value the environment holds for
\* the name given (set is FALSE when no name is given or the environment
\* lacks it); mechanism is the loading mechanism.
NoPaths == [kind |-> "None", list |-> << >>, str |-> EmptyPath]
PathList(l) == [kind |-> "list", list |-> l, str |-> EmptyPath]
PathStr(p) == [kind |-> "str", list |-> << >>, str |-> p]
NoEnv == [set |-> FALSE, value |-> << >>]
Env(value) == [set |-> TRUE, value |-> value]
DefaultArgs == [paths |-> NoPaths, envvar |-> NoEnv, mechanism |-> GUESS]

\* each path with the mechanism of the constructor
with_mechanism(ps, mechanism) == [i \in 1..Len(ps) |-> <<ps[i], mechanism>>]
\* "if paths and isinstance(paths, (list, tuple, set)): for path in paths:
\* self.add_path(path, mechanism=mechanism)"
init_paths(r, paths_arg, mechanism) ==
    IF paths_arg.kind = "list" /\ paths_arg.list # << >>
    THEN add_paths(r, with_mechanism(paths_arg.list, mechanism), {})
    ELSE r
\* a construction that scans the paths of the variable as guessed modules
init_envvar_guesses(r, envvar, mechanism) ==
    IF envvar.set
    THEN add_paths(r, with_mechanism(str_split(envvar.value, ":"), GUESS), {})
    ELSE r
\* "if envvar and envvar in os.environ: for path in
\* os.environ[envvar].split(os.pathsep): self.add_path(path, ...)"
init_envvar(r, envvar, mechanism) ==
    IF envvar.set
    THEN add_paths(r, with_mechanism(str_split(envvar.value, ":"), mechanism), {})
    ELSE r
\* Factory.__init__(abstract, paths, envvar=..., mechanism=...): the
\* registry it leaves, raised when one of its add_path calls raised
__init__(args) ==
    init_envvar(init_paths([entries |-> << >>, paths |-> << >>, loads |-> 0,
                            ret |-> NoCount, raised |-> FALSE],
                           args.paths, args.mechanism),
                args.envvar, args.mechanism)

\* Factory.__init__(abstract, versioning_identifier=...)
Init ==
    /\ _plugins = << >>
    /\ _add_pathed_paths = << >>
    /\ _version \in {None, "version"}
    /\ init_args = DefaultArgs
    /\ last = [op |-> "init", path |-> EmptyPath, obj |-> NoPlugin, ok |-> FALSE,
               raised |-> FALSE, before |-> 0, id |-> None, version |-> NoCount,
               list |-> << >>]

Within(r) == Len(r.entries) <= MaxPlugins /\ Len(r.paths) <= MaxPaths

\* the registry after a call that scans gave r
Scanned(op, path, r) ==
    /\ Within(r)
    /\ _plugins' = Renumber(r.entries)
    /\ _add_pathed_paths' = r.paths
    /\ last' = Call(op, path, NoPlugin, FALSE, r.raised)
    /\ UNCHANGED <<_version, init_args>>

AddPath(path, mechanism) ==
    Scanned("add_path", path, add_path(Registry, path, mechanism))

Registered_(class_type, r) ==
    /\ Len(r.entries) <= MaxPlugins
    /\ _plugins' = r.entries
    /\ last' = Call("register", EmptyPath, class_type, r.ret, FALSE)
    /\ UNCHANGED <<_add_pathed_paths, _version, init_args>>

Register(class_type) ==
    /\ class_type \in CallerObjects \cup SeqToSet(_plugins)
    /\ Registered_(class_type, register(_plugins, class_type))

Reload == Scanned("reload", EmptyPath, reload(Registry))

RemovePath(path) == Scanned("remove_path", path, remove_path(Registry, path))

\* clear that forgets the plugins only
clear_keeps_paths(r) == [entries |-> << >>, paths |-> r.paths, loads |-> r.loads]

\* Factory.clear()
clear(r) == [entries |-> << >>, paths |-> << >>, loads |-> r.loads]

Cleared(r) ==
    /\ _plugins' = r.entries
    /\ _add_pathed_paths' = r.paths
    /\ last' = Call("clear", EmptyPath, NoPlugin, FALSE, FALSE)
    /\ UNCHANGED <<_version, init_args>>

Clear == Cleared(clear(Registry))

Next ==
    \/ \E path \in AddPathArgs, mechanism \in Mechanisms : AddPath(path, mechanism)
    \/ \E class_type \in CallerObjects \cup LoadedObjects : Register(class_type)
    \/ Reload
    \/ \E path \in RemovePathArgs : RemovePath(path)
    \/ Clear

Spec == Init /\ [][Next]_vars

(***************************************************************************)
(* The registry constructed with paths and an environment variable.  The  *)
(* constructor is given at most MaxGiven paths in its list and finds at    *)
(* most MaxGiven segments in the variable.  A constructor that raises      *)
(* leaves no registry: its state is kept, marked raised, and no operation  *)
(* follows it.                                                             *)
(***************************************************************************)
MaxGiven == 2

GivenDirs == {DirSub, DirB, DirBSlash, DirMissing}
EnvDirs == {DirA, EmptyPath}
\* the sequences over S of the lengths from to to
SeqsOf(S, from, to) == UNION {[1..n -> S] : n \in from..to}
PathsArgs ==
    {NoPaths} \cup {PathList(l) : l \in SeqsOf(GivenDirs, 0, MaxGiven)}
              \cup {PathStr(p) : p \in GivenDirs}
EnvArgs == {NoEnv} \cup {Env(str_join(<<":">>, l)) : l \in SeqsOf(EnvDirs, 1, MaxGiven)}
ConstructArgs == [paths : PathsArgs, envvar : EnvArgs, mechanism : Mechanisms]

Constructed(args, r) ==
    /\ _plugins = Renumber(r.entries)
    /\ _add_pathed_paths = r.paths
    /\ _version \in {None, "version"}
    /\ init_args = args
    /\ last = [op |-> "init", path |-> EmptyPath, obj |-> NoPlugin, ok |-> FALSE,
               raised |-> r.raised, before |-> 0, id |-> None,
               version |-> NoCount, list |-> << >>]

InitConstruct == \E args \in ConstructArgs : Constructed(args, __init__(args))

\* there is a registry to call
Made == ~(last.op = "init" /\ last.raised)

NextConstruct ==
    \/ Made /\ Reload
    \/ \E path \in RemovePathArgs : Made /\ RemovePath(path)
    \/ Made /\ Clear

SpecConstruct == InitConstruct /\ [][NextConstruct]_vars

(***************************************************************************)
(* The registry scanning directories only: the plugin directories /a, /b   *)
(* and /c, the last holding a json.py that the library module json         *)
(* shadows.                                                                *)
(***************************************************************************)
LoaderPaths == {DirA, DirB, DirC}

NextLoader ==
    \/ \E path \in LoaderPaths, mechanism \in Mechanisms : AddPath(path, mechanism)
    \/ \E path \in LoaderPaths : RemovePath(path)
    \/ Clear

SpecLoader == Init /\ [][NextLoader]_vars

(***************************************************************************)
(* The file-name pattern and the address resolution on their own: both are *)
(* functions of the host only, applied here to file names of stems of at   *)
(* most MaxStem characters and to the files of the host.                   *)
(***************************************************************************)
MaxStem == 2
StemChars == {"a", "_", "1", " ", "-"}
Extensions == {ExtPy, ExtPyc, ExtPyd, << >>}
FileNames == {stem \o ext : stem \in SeqsOf(StemChars, 0, MaxStem), ext \in Extensions}
AddressArgs == {FileGood, FileBad, FileOther, FileTime, FileJson, FileCJson}

\* self._PY_CHECK.match(filename)
Match(filename) ==
    /\ last' = Call("match", filename, NoPlugin, PY_CHECK(filename), FALSE)
    /\ UNCHANGED <<_plugins, _add_pathed_paths, _version, init_args>>

\* Factory._module_address(filepath), a classmethod: list is the address
\* returned
Addressed(filepath, a) ==
    /\ last' = [Call("_module_address", filepath, NoPlugin, FALSE, a.raised)
                    EXCEPT !.list = a.name]
    /\ UNCHANGED <<_plugins, _add_pathed_paths, _version, init_args>>
ModuleAddress(filepath) == Addressed(filepath, _module_address(filepath))

NextNames ==
    \/ \E filename \in FileNames : Match(filename)
    \/ \E filepath \in AddressArgs : ModuleAddress(filepath)

SpecNames == Init /\ [][NextNames]_vars

(***************************************************************************)
(* The registry of a factory configured with an identifier attribute and a *)
(* version attribute, holding types the caller wrote: get_identifier and   *)
(* get_version are public and are applied to the registered types.         *)
(***************************************************************************)
ToolObjects == {Cached("tool.Plain"), Cached("tool.ByClass"),
                Cached("tool.ByStatic"), Cached("tool.Mixed")}

RegisterTool(class_type) ==
    /\ class_type \in ToolObjects
    /\ Registered_(class_type, register(_plugins, class_type))

GetIdentifier(plugin) ==
    /\ plugin \in SeqToSet(_plugins)
    /\ last' = Asked("get_identifier", get_identifier(plugin), NoCount, plugin, << >>)
    /\ UNCHANGED <<_plugins, _add_pathed_paths, _version, init_args>>

\* getattr(plugin, None) raises TypeError when no version attribute is
\* configured
GetVersion(plugin) ==
    /\ plugin \in SeqToSet(_plugins)
    /\ last' = IF _version = None
               THEN Call("get_version", EmptyPath, plugin, FALSE, TRUE)
               ELSE Asked("get_version", None, get_version(plugin), plugin, << >>)
    /\ UNCHANGED <<_plugins, _add_pathed_paths, _version, init_args>>

NextMethods ==
    \/ \E class_type \in ToolObjects : RegisterTool(class_type)
    \/ \E plugin \in ToolObjects : GetIdentifier(plugin)
    \/ \E plugin \in ToolObjects : GetVersion(plugin)
    \/ Clear

SpecMethods == Init /\ [][NextMethods]_vars

(***************************************************************************)
(* The registry with its queries.  request, versions and plugins assign   *)
(* no field of the registry; each is an action that records what was      *)
(* asked and what was answered.  The queries are explored over registries *)
(* of at most MaxQueryPlugins entries and MaxQueryPaths paths.             *)
(***************************************************************************)
MaxQueryPlugins == 2
MaxQueryPaths == 1

RequestIds == {"Handler", "Tool", "Missing"}
RequestVersions == {NoCount, 0, 1}

\* the orders in which the elements of the set S can be iterated
Orders(S) ==
    {o \in [1..Cardinality(S) -> S] : \A i, j \in 1..Cardinality(S) : o[i] = o[j] => i = j}

Request(plugin_identifier, version) ==
    /\ last' = Asked("request", plugin_identifier, version,
                     request(plugin_identifier, version), << >>)
    /\ UNCHANGED <<_plugins, _add_pathed_paths, _version, init_args>>

Versions(identifier) ==
    /\ last' = Asked("versions", identifier, NoCount, NoPlugin, versions(identifier))
    /\ UNCHANGED <<_plugins, _add_pathed_paths, _version, init_args>>

Plugins(order) ==
    /\ last' = Asked("plugins", None, NoCount, NoPlugin,
                     plugins_list(_plugins, _version, order))
    /\ UNCHANGED <<_plugins, _add_pathed_paths, _version, init_args>>

Few ==
    /\ Len(_plugins') <= MaxQueryPlugins
    /\ Len(_add_pathed_paths') <= MaxQueryPaths

NextQueries ==
    \/ \E path \in AddPathArgs, mechanism \in Mechanisms :
            AddPath(path, mechanism) /\ Few
    \/ \E class_type \in CallerObjects \cup LoadedObjects :
            Register(class_type) /\ Few
    \/ Reload /\ Few
    \/ \E path \in RemovePathArgs : RemovePath(path) /\ Few
    \/ Clear
    \/ \E plugin_identifier \in RequestIds, version \in RequestVersions :
            Request(plugin_identifier, version)
    \/ \E identifier \in RequestIds : Versions(identifier)
    \/ \E order \in Orders(identifiers) : Plugins(order)

SpecQueries == Init /\ [][NextQueries]_vars

(***************************************************************************)
(* Vocabulary of the properties.                                           *)
(***************************************************************************)
\* a type that is a strict subtype of the abstract contract
Conforming(obj) == obj.decl \notin {"Abs", "Unrelated", "helper"}
\* the file raises when it is executed
Broken(file) == ~FileModule(norm_path(file)).ok
\* the mechanism recorded for a key of the Search Path Record d
MechanismOf(d, key) == d[CHOOSE i \in 1..Len(d) : d[i][1] = key][2]
Registered(d, key) == \E i \in 1..Len(d) : d[i][1] = key
\* the file can be turned into a module under the mechanism: by a direct
\* load, or by the address of a module of the host backed by this very file
Loadable(file, mechanism) ==
    /\ ~Broken(file)
    /\ \/ mechanism \in {GUESS, LOAD_SOURCE}
       \/ LET mod == import(splitext_root(basename(file)))
          IN  mod.ok /\ mod.file = norm_path(file)
\* the class statements and imported objects a file exposes that conform
ConformingDecls(file) ==
    LET its == FileModule(norm_path(file)).items
    IN  {its[i].decl : i \in {j \in 1..Len(its) : Conforming(Cached(its[j].decl))}}
DeclsOf(S) == {p.decl : p \in S}
\* the entries the last call appended
Appended == SubSeq(_plugins, last.before + 1, Len(_plugins))
\* the positions of the entries that have the identifier of T
SameIdentifier(T) ==
    {i \in 1..Len(_plugins) : get_identifier(_plugins[i]) = get_identifier(T)}

(***************************************************************************)
(* C1 (as stated): after register(T) returned true, request(identifier of  *)
(* T) with no version returns T itself, with or without a versioning rule. *)
(***************************************************************************)
C1_RegisterThenRequestExact ==
    (last.op = "register" /\ last.ok)
        => request(get_identifier(last.obj), NoCount) = last.obj

(***************************************************************************)
(* C1 (amended): after register(T) returned true, T is an entry and        *)
(* request(identifier of T) with no version returns an entry that has T's  *)
(* identifier; it is T itself exactly when T is the first entry with that  *)
(* identifier (no versioning rule), or the last one in insertion order of  *)
(* the entries with that identifier that have the highest version          *)
(* (versioning rule configured).                                           *)
(***************************************************************************)
C1_RegisterThenRequest ==
    (last.op = "register" /\ last.ok) =>
        LET T == last.obj
            same == SameIdentifier(T)
            got == request(get_identifier(T), NoCount)
            top == MaxOf({get_version(_plugins[i]) : i \in same})
            last_top == MaxOf({i \in same : get_version(_plugins[i]) = top})
        IN  /\ T \in SeqToSet(_plugins)
            /\ got # NoPlugin
            /\ get_identifier(got) = get_identifier(T)
            /\ _version = None => (got = T <=> _plugins[MinOf(same)] = T)
            /\ _version # None => (got = T <=> _plugins[last_top] = T)

\* register accepted T, another entry shares T's identifier, a versioning
\* rule is configured and request gives T back
C1_Witness ==
    /\ last.op = "register" /\ last.ok
    /\ _version # None
    /\ Cardinality(DeclsOf({_plugins[i] : i \in SameIdentifier(last.obj)})) >= 2
    /\ request(get_identifier(last.obj), NoCount) = last.obj

(***************************************************************************)
(* C2: the Plugin Entry sequence never contains the abstract contract      *)
(* type itself, whether entries come from a scan or from register.         *)
(***************************************************************************)
C2_NoAbstractEntry == \A i \in 1..Len(_plugins) : _plugins[i] # AbstractType

(***************************************************************************)
(* C3: no type object occurs more than once in the Plugin Entry sequence.  *)
(***************************************************************************)
C3_NoDuplicateEntry ==
    \A i \in 1..Len(_plugins) : \A j \in 1..Len(_plugins) :
        i # j => _plugins[i] # _plugins[j]

(***************************************************************************)
(* C4: add_path, reload and remove_path return normally whatever the       *)
(* candidate files are: no exception of a single file leaves the call.     *)
(***************************************************************************)
C4_ScanNeverRaises ==
    last.op \in {"add_path", "reload", "remove_path"} => ~last.raised

(***************************************************************************)
(* C5: in one add_path scan a candidate file that fails to load adds no    *)
(* entry, and the conforming types of every other, loadable candidate file *)
(* of the path are appended, wherever the failing file is in the order.    *)
(***************************************************************************)
C5_ScanSurvivesBadFile ==
    (last.op = "add_path" /\ Registered(_add_pathed_paths, last.path)) =>
        LET mechanism == MechanismOf(_add_pathed_paths, last.path)
            files == Candidates[last.path]
        IN  \A i \in 1..Len(files) :
                /\ Broken(files[i]) =>
                      \A k \in 1..Len(Appended) :
                          Appended[k].decl \notin
                              {it.decl : it \in SeqToSet(FileModule(norm_path(files[i])).items)}
                /\ Loadable(files[i], mechanism) =>
                      ConformingDecls(files[i]) \subseteq DeclsOf(SeqToSet(Appended))

(***************************************************************************)
(* C6: where P and other paths are registered, after remove_path(P) no     *)
(* key that denotes P is in paths(), every entry left is one a file under  *)
(* a path still registered exposes, every other path is still registered   *)
(* with its mechanism and the conforming types of its loadable files are   *)
(* present; once the last path is removed the sequence is empty.           *)
(***************************************************************************)
C6_RemovePathKeepsOthers ==
    [][ (last'.op = "remove_path"
            /\ \E i \in 1..Len(_add_pathed_paths) :
                  is_same_path(_add_pathed_paths[i][1], last'.path)) =>
          LET P == last'.path
              others == {i \in 1..Len(_add_pathed_paths) :
                            ~is_same_path(_add_pathed_paths[i][1], P)}
          IN  /\ \A i \in 1..Len(_add_pathed_paths') :
                    ~is_same_path(_add_pathed_paths'[i][1], P)
              /\ \A k \in 1..Len(_plugins') :
                    \E i \in 1..Len(_add_pathed_paths') :
                        \E f \in SeqToSet(Candidates[_add_pathed_paths'[i][1]]) :
                            _plugins'[k].decl \in ConformingDecls(f)
              /\ \A i \in others :
                    /\ \E j \in 1..Len(_add_pathed_paths') :
                          _add_pathed_paths'[j] = _add_pathed_paths[i]
                    /\ \A f \in SeqToSet(Candidates[_add_pathed_paths[i][1]]) :
                          Loadable(f, _add_pathed_paths[i][2]) =>
                              ConformingDecls(f) \subseteq DeclsOf(SeqToSet(_plugins'))
              /\ _add_pathed_paths' = << >> => _plugins' = << >>
      ]_vars

(***************************************************************************)
(* C7 (as stated): with an unchanged file system a reload() after a        *)
(* reload() yields the same identifiers() set and the same plugins() set.  *)
(***************************************************************************)
C7_ReloadTwiceSameObjects ==
    LET r1 == reload(Registry)
        r2 == reload(r1)
    IN  /\ identifiers_in(r2.entries) = identifiers_in(r1.entries)
        /\ plugins_in(r2.entries, _version) = plugins_in(r1.entries, _version)

(***************************************************************************)
(* C7 (amended): a reload() after a reload() leaves the Search Path Record *)
(* as it was, yields the same identifiers() set, and a plugins() set made  *)
(* of the same class statements: the very same type objects for modules    *)
(* taken from the host's module cache, freshly loaded type objects for     *)
(* files that are loaded directly.                                         *)
(***************************************************************************)
C7_ReloadTwiceSameClasses ==
    LET r1 == reload(Registry)
        r2 == reload(r1)
        p1 == plugins_in(r1.entries, _version)
        p2 == plugins_in(r2.entries, _version)
    IN  /\ r2.paths = r1.paths
        /\ r2.raised = r1.raised
        /\ identifiers_in(r2.entries) = identifiers_in(r1.entries)
        /\ DeclsOf(p2) = DeclsOf(p1)
        /\ {p \in p2 : p.load = 0} = {p \in p1 : p.load = 0}
        /\ \A p \in p2 : p.load # 0 => p \notin p1

\* a reload has just run over two paths and left directly loaded entries
\* and entries of the module cache that share an identifier
C7_Witness ==
    /\ last.op = "reload" /\ ~last.raised
    /\ Len(_add_pathed_paths) = 2
    /\ \E i \in 1..Len(_plugins) : _plugins[i].load > 0
    /\ \E i \in 1..Len(_plugins) : _plugins[i].load = 0
    /\ Cardinality(identifiers) < Cardinality(SeqToSet(_plugins))

(***************************************************************************)
(* C8: clear() leaves the Plugin Entry sequence and the Search Path Record *)
(* empty: identifiers() and plugins() are empty, paths() is the empty list.*)
(***************************************************************************)
C8_ClearEmptiesAll ==
    last.op = "clear" =>
        /\ _plugins = << >>
        /\ _add_pathed_paths = << >>
        /\ identifiers = {}
        /\ plugins = {}
        /\ paths = << >>

\* clear has run on a registry that held entries
C8_Witness == last.op = "clear" /\ last.before > 0 /\ identifiers = {}

(***************************************************************************)
(* C9: register is idempotent: when register(T) returned true, a second    *)
(* register(T) returns true and leaves the Plugin Entry sequence, length   *)
(* and order, as the first call left it.                                   *)
(***************************************************************************)
C9_RegisterIdempotent ==
    \A T \in CallerObjects \cup SeqToSet(_plugins) :
        LET first == register(_plugins, T)
            second == register(first.entries, T)
        IN  first.ret => (second.ret /\ second.entries = first.entries)

\* register has accepted a type that was already an entry, among others
C9_Witness ==
    /\ last.op = "register" /\ last.ok
    /\ last.before = Len(_plugins)
    /\ Len(_plugins) >= 2

(***************************************************************************)
(* C10: register(x) with x not a type, or a type that is not a subtype of  *)
(* the abstract contract, returns false and changes neither the Plugin     *)
(* Entry sequence nor the Search Path Record.                              *)
(***************************************************************************)
C10_RegisterRejects ==
    [][ (last'.op = "register" /\ last'.obj.decl \in {"Unrelated", "helper"}) =>
            /\ ~last'.ok
            /\ _plugins' = _plugins
            /\ _add_pathed_paths' = _add_pathed_paths
      ]_vars

\* register has refused an object while entries and paths were registered
C10_Witness ==
    /\ last.op = "register" /\ ~last.ok
    /\ _plugins # << >>
    /\ _add_pathed_paths # << >>

(***************************************************************************)
(* Vocabulary of the properties of the queries.                            *)
(***************************************************************************)
\* the version arguments a caller may give: None, or a number
VersionArgs == {NoCount} \cup 0..3
\* the identifiers a caller may ask for
IdArgs == RequestIds \cup identifiers
\* the positions of the entries that have the identifier
Matching(id) == {i \in 1..Len(_plugins) : get_identifier(_plugins[i]) = id}
\* the versions the entries with the identifier report
VersionsOf(id) == {get_version(_plugins[i]) : i \in Matching(id)}
\* the answer recorded for the last request is the one request gives
Answered == last.obj = request(last.id, last.version)
RegistryUnchanged == UNCHANGED <<_plugins, _add_pathed_paths, _version>>

(***************************************************************************)
(* C11: with a versioning rule configured, request(identifier) with no     *)
(* version returns an entry of that identifier whose version is the        *)
(* highest among the entries of that identifier, whatever the order of the *)
(* entries; a version of 0 counts as a version.                            *)
(***************************************************************************)
C11_RequestHighestVersion ==
    /\ last.op = "request" => Answered
    /\ _version # None =>
          \A id \in identifiers :
              LET got == request(id, NoCount)
              IN  /\ got \in SeqToSet(_plugins)
                  /\ get_identifier(got) = id
                  /\ get_version(got) = MaxOf(VersionsOf(id))

\* request with no version has answered with an entry of the highest
\* version that stands before an entry of a lower version
C11_Witness ==
    /\ last.op = "request" /\ last.version = NoCount /\ _version # None
    /\ \E i, j \in Matching(last.id) :
          /\ i < j
          /\ _plugins[i] = last.obj
          /\ get_version(_plugins[j]) < get_version(_plugins[i])

(***************************************************************************)
(* C12: with a versioning rule configured, request(identifier, v) returns  *)
(* an entry of that identifier whose version is v when there is one, and   *)
(* None when entries of that identifier exist but none has version v.      *)
(***************************************************************************)
C12_RequestVersion ==
    _version # None =>
        \A id \in identifiers : \A v \in 0..3 :
            LET got == request(id, v)
            IN  IF v \in VersionsOf(id)
                THEN /\ got \in SeqToSet(_plugins)
                     /\ get_identifier(got) = id
                     /\ get_version(got) = v
                ELSE got = NoPlugin

\* request has answered with the entry of the version asked for, which is
\* not the highest version of its identifier nor its first entry
C12_Witness ==
    /\ last.op = "request" /\ _version # None
    /\ last.version # NoCount
    /\ last.obj # NoPlugin
    /\ get_version(last.obj) = last.version
    /\ last.version < MaxOf(VersionsOf(last.id))
    /\ _plugins[MinOf(Matching(last.id))] # last.obj

(***************************************************************************)
(* C13: request for an identifier no entry has returns None, does not      *)
(* raise and changes nothing in the registry, with or without a versioning *)
(* rule and whatever the version argument.                                 *)
(***************************************************************************)
C13_RequestUnknown ==
    [][ /\ \A id \in IdArgs \ identifiers : \A v \in VersionArgs :
              request(id, v) = NoPlugin
        /\ (last'.op = "request" /\ last'.id \notin identifiers) =>
              /\ last'.obj = NoPlugin
              /\ ~last'.raised
              /\ RegistryUnchanged
      ]_vars

\* request has answered None for an identifier that no entry of a registry
\* with entries has, a version being given
C13_Witness ==
    /\ last.op = "request" /\ last.obj = NoPlugin
    /\ last.id \notin identifiers
    /\ last.version # NoCount
    /\ _plugins # << >>

(***************************************************************************)
(* C14: with no versioning rule configured, request(identifier, version)   *)
(* returns the first entry in insertion order that has the identifier,     *)
(* whatever the version argument.                                          *)
(***************************************************************************)
C14_RequestFirstMatch ==
    _version = None =>
        \A id \in identifiers : \A v \in VersionArgs :
            request(id, v) = _plugins[MinOf(Matching(id))]

\* without a rule request has answered with the first entry of the
\* identifier although a later entry has the version asked for
C14_Witness ==
    /\ last.op = "request" /\ _version = None
    /\ last.version \in VersionsOf(last.id)
    /\ last.obj = _plugins[MinOf(Matching(last.id))]
    /\ get_version(last.obj) # last.version

(***************************************************************************)
(* C15: plugins() holds exactly one element for each element of            *)
(* identifiers(), that element is request(identifier) with no version (the *)
(* first entry of the identifier without a versioning rule, an entry of    *)
(* its highest version with one), and it holds neither None nor two        *)
(* entries of one identifier, however many entries share an identifier and *)
(* in whatever order the identifiers are iterated.                         *)
(***************************************************************************)
C15_PluginsOnePerIdentifier ==
    /\ \A order \in Orders(identifiers) :
          LET L == plugins_list(_plugins, _version, order)
          IN  /\ Len(L) = Cardinality(identifiers)
              /\ \A i \in 1..Len(L) :
                    /\ L[i] = request(order[i], NoCount)
                    /\ L[i] # NoPlugin
                    /\ L[i] \in SeqToSet(_plugins)
                    /\ get_identifier(L[i]) = order[i]
                    /\ _version = None => L[i] = _plugins[MinOf(Matching(order[i]))]
                    /\ _version # None =>
                          get_version(L[i]) = MaxOf(VersionsOf(order[i]))
              /\ \A i, j \in 1..Len(L) :
                    get_identifier(L[i]) = get_identifier(L[j]) => i = j
    /\ last.op = "plugins" =>
          \E order \in Orders(identifiers) :
              last.list = plugins_list(_plugins, _version, order)

\* plugins has answered for a registry in which entries share an identifier
C15_Witness ==
    /\ last.op = "plugins"
    /\ Len(last.list) >= 1
    /\ Len(last.list) < Len(_plugins)

(***************************************************************************)
(* C16: versions(identifier) gives the versions of the entries that have   *)
(* the identifier, one for each such entry, in ascending order; it gives   *)
(* the empty list without a versioning rule and when no entry matches.     *)
(***************************************************************************)
C16_VersionsSorted ==
    /\ last.op = "versions" => last.list = versions(last.id)
    /\ \A id \in IdArgs :
          LET vs == versions(id)
          IN  /\ _version = None => vs = << >>
              /\ Matching(id) = {} => vs = << >>
              /\ _version # None =>
                    /\ Len(vs) = Cardinality(Matching(id))
                    /\ \A i \in 1..(Len(vs) - 1) : vs[i] <= vs[i + 1]
                    /\ \A v \in 0..3 :
                          Cardinality({i \in 1..Len(vs) : vs[i] = v})
                            = Cardinality({i \in Matching(id) :
                                              get_version(_plugins[i]) = v})

\* versions has answered with several versions whose ascending order is not
\* the order of the entries
C16_Witness ==
    /\ last.op = "versions" /\ _version # None
    /\ Len(last.list) >= 2
    /\ last.list # version_values(matching_plugins(_plugins, last.id))

(***************************************************************************)
(* C17: add_path with a path that is empty or is not an existing directory *)
(* (a missing path, a file) returns 0, does not raise and leaves the       *)
(* Plugin Entry sequence and the Search Path Record as they were; the path *)
(* is not in paths() afterwards.  Where such a call is made, the same      *)
(* holds of every path that is no directory and every mechanism.           *)
(***************************************************************************)
NotDirectories == {EmptyPath, DirMissing, FileGood}

C17_AddPathRejects ==
    [][ (last'.op = "add_path"
            /\ (last'.path = EmptyPath \/ ~isdir(last'.path))) =>
          /\ ~last'.raised
          /\ _plugins' = _plugins
          /\ _add_pathed_paths' = _add_pathed_paths
          /\ last'.path \notin SeqToSet(paths')
          /\ \A path \in NotDirectories : \A mechanism \in Mechanisms :
                add_path(Registry, path, mechanism)
                  = [entries |-> _plugins, paths |-> _add_pathed_paths,
                     loads |-> Registry.loads, ret |-> 0, raised |-> FALSE]
      ]_vars

\* add_path has refused a missing directory while entries and paths were
\* registered
C17_Witness ==
    /\ last.op = "add_path" /\ last.path = DirMissing
    /\ _plugins # << >>
    /\ _add_pathed_paths # << >>

(***************************************************************************)
(* C18: for every candidate file of a scanned path the loaders called      *)
(* follow the mechanism of the path: IMPORTABLE calls the loading by       *)
(* address only, LOAD_SOURCE the direct load only, GUESS the loading by    *)
(* address first and then the direct load exactly when the loading by      *)
(* address gave no usable module.                                          *)
(***************************************************************************)
\* the loaders called on filepath, in the order of the calls
LoadersOf(calls, filepath) ==
    LET own == SelectSeqBy(calls, {c \in SeqToSet(calls) : c[2] = filepath})
    IN  [i \in 1..Len(own) |-> own[i][1]]
\* the loading by address gives a module, and it is the module of filepath
Usable(filepath) ==
    LET by == _mechanism_import(filepath)
    IN  /\ ~by.raised
        /\ by.module.found
        /\ by.module.file # NoFile
        /\ is_same_path(by.module.file, filepath)

C18_LoaderFollowsMechanism ==
    [][ (last'.op = "add_path" /\ isdir(last'.path)) =>
          LET mechanism == MechanismOf(_add_pathed_paths', last'.path)
              calls == scan(Registry, last'.path, mechanism).calls
          IN  \A f \in SeqToSet(Candidates[last'.path]) :
                  LoadersOf(calls, f) =
                      CASE mechanism = IMPORTABLE -> <<"import">>
                        [] mechanism = LOAD_SOURCE -> <<"load">>
                        [] mechanism = GUESS ->
                              IF Usable(f) THEN <<"import">>
                              ELSE <<"import", "load">>
      ]_vars

(***************************************************************************)
(* Vocabulary of reload.                                                   *)
(***************************************************************************)
\* the class statements a scan of the paths of the Search Path Record d can
\* meet: the conforming ones that the candidate files of the paths expose
Discoverable(d) ==
    UNION {ConformingDecls(f) :
              f \in UNION {SeqToSet(Candidates[d[i][1]]) : i \in 1..Len(d)}}
\* the entries that no scan of the registered paths can meet: they came
\* from register only
RegisteredOnly ==
    {T \in SeqToSet(_plugins) : T.decl \notin Discoverable(_add_pathed_paths)}
\* after reload: the entries are discoverable under the paths registered
\* before it, and no entry that came from register only is left
ReloadRescans ==
    /\ \A k \in 1..Len(_plugins') :
          _plugins'[k].decl \in Discoverable(_add_pathed_paths)
    /\ \A T \in RegisteredOnly :
          \A k \in 1..Len(_plugins') : _plugins'[k].decl # T.decl

(***************************************************************************)
(* C19 (as stated): after reload() every entry was produced by the scan of *)
(* a path registered before the call; a type that only register added and  *)
(* that no registered path yields is not in the sequence any more, and     *)
(* request for its identifier returns None.                                *)
(***************************************************************************)
C19_ReloadDropsRegisteredExact ==
    [][ last'.op = "reload" =>
          /\ ReloadRescans
          /\ \A T \in RegisteredOnly :
                request_in(_plugins', _version, get_identifier(T), NoCount)
                    = NoPlugin
      ]_vars

(***************************************************************************)
(* C19 (amended): after reload() every entry was produced by the scan of a *)
(* path registered before the call; a type that only register added and    *)
(* that no registered path yields is not in the sequence any more, and     *)
(* request for its identifier returns None unless a rediscovered entry has *)
(* the same identifier, in which case request returns a rediscovered entry *)
(* of that identifier.                                                     *)
(***************************************************************************)
C19_ReloadDropsRegistered ==
    [][ last'.op = "reload" =>
          /\ ReloadRescans
          /\ \A T \in RegisteredOnly :
                LET got == request_in(_plugins', _version, get_identifier(T), NoCount)
                IN  IF get_identifier(T) \in identifiers_in(_plugins')
                    THEN /\ got \in SeqToSet(_plugins')
                         /\ got.decl # T.decl
                         /\ get_identifier(got) = get_identifier(T)
                    ELSE got = NoPlugin
      ]_vars

\* reload has returned with fewer entries than the registry had, the rest
\* rediscovered from two paths
C19_Witness ==
    /\ last.op = "reload" /\ ~last.raised
    /\ Len(_add_pathed_paths) = 2
    /\ _plugins # << >>
    /\ Len(_plugins) < last.before

(***************************************************************************)
(* C20: in every state and for every path argument P, registered or not,  *)
(* a call remove_path(P) leaves what reload() leaves on the same registry  *)
(* once every key of the Search Path Record that denotes P (by             *)
(* normalized-path comparison) has been deleted: the same paths with the   *)
(* same mechanisms in the same order, the same entries in the same order   *)
(* (freshly loaded types compared load for load), the same outcome.        *)
(***************************************************************************)
\* the registry r without the keys of its Search Path Record that denote P
WithoutPath(r, P) ==
    [r EXCEPT !.paths =
        SelectSeqBy(@, {kv \in SeqToSet(@) : ~is_same_path(kv[1], P)})]

C20_RemovePathIsReloadWithout ==
    [][ last'.op = "remove_path" =>
          \E r \in {reload(WithoutPath(Registry, last'.path))} :
                /\ remove_path(Registry, last'.path) = r
                /\ _plugins' = Renumber(r.entries)
                /\ _add_pathed_paths' = r.paths
                /\ last'.raised = r.raised
      ]_vars

\* remove_path has been given a path written with a trailing separator and
\* has rebuilt the registry from the paths that remain, with fewer entries
\* than it had
C20_Witness ==
    /\ last.op = "remove_path" /\ last.path = DirBSlash
    /\ ~last.raised
    /\ _add_pathed_paths # << >>
    /\ _plugins # << >>
    /\ Len(_plugins) < last.before

(***************************************************************************)
(* C26: with a versioning rule configured, when several entries share an   *)
(* identifier and a version v, request(identifier, v), and                 *)
(* request(identifier) when v is the highest version, return the one that  *)
(* is last in insertion order; an entry that has a later entry of its     *)
(* identifier and version is returned by no request, unless it is the      *)
(* same object as the one returned.                                        *)
(***************************************************************************)
\* the position of the last entry that has the identifier and the version
LastOf(id, v) == MaxOf({i \in Matching(id) : get_version(_plugins[i]) = v})

C26_RequestLaterOfSameVersion ==
    /\ last.op = "request" => Answered
    /\ _version # None =>
          \A id \in identifiers :
              /\ \A v \in VersionsOf(id) :
                    /\ request(id, v) = _plugins[LastOf(id, v)]
                    /\ v = MaxOf(VersionsOf(id)) =>
                          request(id, NoCount) = _plugins[LastOf(id, v)]
              /\ \A w \in VersionArgs :
                    request(id, w) # NoPlugin =>
                        \E v \in VersionsOf(id) :
                            request(id, w) = _plugins[LastOf(id, v)]

\* request has answered with the later of two different entries that share
\* the identifier and the version
C26_Witness ==
    /\ last.op = "request" /\ _version # None
    /\ \E i, j \in Matching(last.id) :
          /\ i < j
          /\ get_version(_plugins[i]) = get_version(_plugins[j])
          /\ _plugins[i] # _plugins[j]
          /\ last.obj = _plugins[j]

(***************************************************************************)
(* C27: add_path on an existing directory always records the path with    *)
(* the mechanism of the call, whatever the scan finds; on a path that is   *)
(* already recorded it scans again as on a new path and puts the           *)
(* mechanism of the call in the place of the recorded one.  reload keeps   *)
(* the recorded mechanisms, which are the ones it scans with.              *)
(***************************************************************************)
\* d[key] on a dict kept as a sequence of pairs
dict_get(d, key) == d[CHOOSE i \in 1..Len(d) : d[i][1] = key][2]
\* the registry after the entries have been renumbered
Settled(r) == [entries |-> Renumber(r.entries), paths |-> r.paths, raised |-> r.raised]
Now == [entries |-> _plugins, paths |-> _add_pathed_paths, raised |-> last.raised]

Given(args) ==
    IF args.paths.kind = "list" THEN SeqToSet(args.paths.list)
    ELSE IF args.paths.kind = "str" THEN {args.paths.str}
    ELSE {}
\* the directories named by the environment variable
FromEnv(args) ==
    IF args.envvar.set THEN SeqToSet(str_split(args.envvar.value, ":")) ELSE {}
\* the conforming types of the loadable candidate files of directory d are
\* among the entries
Holds(d, mechanism) ==
    \A f \in SeqToSet(Candidates[d]) :
        Loadable(f, mechanism) => ConformingDecls(f) \subseteq DeclsOf(SeqToSet(_plugins))

(***************************************************************************)
(* C21 (as stated): constructing a Factory with `paths` (a list or a       *)
(* single value) scans each given directory immediately: right after       *)
(* construction every given existing directory is in the Search Path       *)
(* Record and the entries hold the plugins found there.                    *)
(***************************************************************************)
C21_ConstructScansGiven ==
    last.op = "init" =>
        \A d \in Given(init_args) :
            isdir(d) =>
                /\ Registered(_add_pathed_paths, d)
                /\ Holds(d, init_args.mechanism)

(***************************************************************************)
(* C22: every path registered during construction, from `paths` or from    *)
(* the environment variable, is recorded with the constructor's mechanism, *)
(* and a later reload() rescans it with that same mechanism.               *)
(***************************************************************************)
RecordedWithInitMechanism ==
    \A i \in 1..Len(_add_pathed_paths) :
        _add_pathed_paths[i][2] = init_args.mechanism
ReloadWithInitMechanism ==
    (last'.op = "reload" /\ ~last'.raised) =>
        /\ _add_pathed_paths' = _add_pathed_paths
        /\ Now' = Settled(add_paths([entries |-> << >>, paths |-> << >>,
                                     loads |-> Registry.loads, ret |-> NoCount,
                                     raised |-> FALSE],
                                    with_mechanism(paths_in(_add_pathed_paths),
                                                   init_args.mechanism), {}))
C28_PathsDeduplicated ==
    \A i, j \in 1..Len(_add_pathed_paths) :
        is_same_path(_add_pathed_paths[i][1], _add_pathed_paths[j][1]) => i = j

(***************************************************************************)
(* C23 (as stated): identifier and version resolution call the configured  *)
(* attribute whenever it is invocable with no arguments (a classmethod or  *)
(* a staticmethod of the plugin type) and use the call's result; only a    *)
(* non-invocable attribute is used as the value directly.                  *)
(***************************************************************************)
\* the attribute can be invoked with no arguments on the type
Invocable(form) == form \in {"classmethod", "staticmethod"}
\* what resolution is said to give: the result of the call, or the value
Resolved(form, result, value) == IF Invocable(form) THEN result ELSE value
C23_ResolutionCallsInvocable ==
    /\ last.op = "get_identifier" =>
          last.id = Resolved(NameForm(last.obj.decl), DeclName(last.obj.decl),
                             DeclName(last.obj.decl))
    /\ (last.op = "get_version" /\ ~last.raised) =>
          last.version = Resolved(VersionForm(last.obj.decl),
                                  DeclVersion(last.obj.decl),
                                  DeclVersion(last.obj.decl))

(***************************************************************************)
(* Vocabulary of the scan of one file.                                     *)
(***************************************************************************)
\* address-based loading gives, for the candidate file, a module that a
\* different file backs
Shadowed(file) ==
    /\ ~ByAddress[file].raised
    /\ ByAddress[file].module.found
    /\ ByAddress[file].module.file # NoFile
    /\ ~is_same_path(ByAddress[file].module.file, file)
\* the class statements of the file itself
LocalDecls(file) ==
    LET its == FileModule(norm_path(file)).items
    IN  {its[i].decl : i \in {j \in 1..Len(its) : its[j].kind = "local"}}
\* resolving the file raises out of add_path: its name is the name of a
\* module without a file
Raises(file, mechanism) ==
    /\ mechanism \in {GUESS, IMPORTABLE}
    /\ import(splitext_root(basename(file))).ok
    /\ import(splitext_root(basename(file))).file = NoFile
\* the candidate files the call comes to resolve, in order: all of them, or
\* those before the one that raises
RECURSIVE Attempted(_, _)
Attempted(files, mechanism) ==
    IF files = << >> THEN << >>
    ELSE IF Raises(Head(files), mechanism) THEN << >>
    ELSE <<Head(files)>> \o Attempted(Tail(files), mechanism)
\* the declarations of the file that are types, are not the abstract and
\* are subtypes of it, in the order of dir(module)
RECURSIVE ConformingOf(_)
ConformingOf(items) ==
    IF items = << >> THEN << >>
    ELSE IF Conforming(Cached(Head(items).decl))
    THEN <<Head(items).decl>> \o ConformingOf(Tail(items))
    ELSE ConformingOf(Tail(items))
\* what the files contribute, one resolved module after the other
RECURSIVE Contributed(_, _)
Contributed(files, mechanism) ==
    IF files = << >> THEN << >>
    ELSE IF Loadable(Head(files), mechanism)
    THEN ConformingOf(FileModule(norm_path(Head(files))).items)
            \o Contributed(Tail(files), mechanism)
    ELSE Contributed(Tail(files), mechanism)
DeclSeq(s) == [i \in 1..Len(s) |-> s[i].decl]

(***************************************************************************)
(* C24: no entry ever enters the entries from an address-loaded module     *)
(* whose backing file is not the candidate file being scanned.  When       *)
(* address-based loading returns a module backed by a different file, the  *)
(* result is discarded: GUESS then loads the candidate file directly, and  *)
(* under IMPORTABLE the file contributes no entry.  The files are those    *)
(* the call comes to resolve.                                              *)
(***************************************************************************)
C24_ShadowingModuleDiscarded ==
    [][ (last'.op = "add_path" /\ isdir(last'.path)) =>
            \A file \in SeqToSet(Attempted(Candidates[last'.path],
                                            MechanismOf(_add_pathed_paths', last'.path))) :
                Shadowed(file) =>
                    /\ SeqToSet(_plugins')
                          \cap SeqToSet(ByAddress[file].module.objects) = {}
                    /\ MechanismOf(_add_pathed_paths', last'.path) = GUESS =>
                          \A d \in LocalDecls(file) :
                              Conforming(Cached(d)) =>
                                  \E T \in SeqToSet(Appended') :
                                      T.decl = d /\ T.load # 0
                    /\ MechanismOf(_add_pathed_paths', last'.path) = IMPORTABLE =>
                          \A T \in SeqToSet(Appended') : T.decl \notin LocalDecls(file)
      ]_vars
C24_Witness ==
    /\ last.op = "add_path"
    /\ last.path = DirC
    /\ MechanismOf(_add_pathed_paths, DirC) = GUESS
    /\ Shadowed(FileCJson)
    /\ ByAddress[FileCJson].module.objects # << >>
    /\ DeclSeq(Appended) = <<"cjson.Handler">>
    /\ Appended[1].load # 0

(***************************************************************************)
(* C25: for each successfully resolved module, the entries add_path        *)
(* appends are exactly the module's top-level declarations that are types, *)
(* are not the abstract contract itself and are subtypes of it: every such *)
(* declaration is appended, in order, and nothing else is.                 *)
(***************************************************************************)
C25_InspectionKeepsConforming ==
    [][ (last'.op = "add_path" /\ isdir(last'.path)) =>
            DeclSeq(Appended') =
                Contributed(Attempted(Candidates[last'.path],
                                      MechanismOf(_add_pathed_paths', last'.path)),
                            MechanismOf(_add_pathed_paths', last'.path))
      ]_vars
C25_Witness ==
    /\ last.op = "add_path"
    /\ last.path = DirA
    /\ ~last.raised
    /\ MechanismOf(_add_pathed_paths, DirA) = LOAD_SOURCE
    /\ DeclSeq(Appended) = <<"good.Handler", "other.Handler">>

(***************************************************************************)
(* C29 (as stated): a file found under a scanned path is a candidate if    *)
(* and only if its name does not begin with an underscore, a space or a    *)
(* digit and ends in .py or .pyc; this holds for every such name,          *)
(* including names whose stem is a single character.                       *)
(***************************************************************************)
NamedAsCandidate(filename) ==
    /\ filename # << >>
    /\ filename[1] \notin {"_", " "} \cup Digits
    /\ EndsWith(filename, ExtPy) \/ EndsWith(filename, ExtPyc)
C29_CandidateNames ==
    last.op = "match" => (last.ok <=> NamedAsCandidate(last.path))

(***************************************************************************)
(* C30 (as stated): for a file inside a package (each containing directory *)
(* up to the package root holds an __init__ marker, the root's parent does *)
(* not), address-based resolution returns the dotted address formed by the *)
(* package directory names followed by the file's stem when that address   *)
(* is importable; any address it returns has been imported successfully,   *)
(* and it returns nothing when no address can be established.              *)
(***************************************************************************)
dirname(p) ==
    IF Positions(p, "/") = {} THEN << >>
    ELSE IF MaxOf(Positions(p, "/")) = 1 THEN <<"/">>
    ELSE SubSeq(p, 1, MaxOf(Positions(p, "/")) - 1)
HasMarker(dir) ==
    \E ext \in {ExtPy, ExtPyc} : exists(path_join2(dir, InitStem \o ext))
\* the names of the package directories that contain dir, outermost first
RECURSIVE PackageNames(_)
PackageNames(dir) ==
    IF dir \in {<<"/">>, << >>} \/ ~HasMarker(dir) THEN << >>
    ELSE PackageNames(dirname(dir)) \o <<basename(dir)>>
InPackage(file) == PackageNames(dirname(file)) # << >>
DottedAddress(file) ==
    str_join(<<".">>,
             PackageNames(dirname(file)) \o <<splitext_root(basename(file))>>)
C30_PackageAddress ==
    (last.op = "_module_address" /\ ~last.raised) =>
        /\ (InPackage(last.path) /\ import(DottedAddress(last.path)).ok) =>
              last.list = DottedAddress(last.path)
        /\ last.list # NoAddress => import(last.list).ok
        /\ (~InPackage(last.path)
                /\ ~import(splitext_root(basename(last.path))).ok) =>
              last.list = NoAddress

(***************************************************************************)
(* C31: the Plugin Entry sequence is append-only between resets.  For      *)
(* every add_path and register call the sequence before the call is a      *)
(* prefix of the sequence after it; add_path returns the number of entries *)
(* that call appended, not the total; only clear, reload and remove_path   *)
(* can shrink the sequence.                                                *)
(***************************************************************************)
IsPrefix(s, t) == Len(s) <= Len(t) /\ SubSeq(t, 1, Len(s)) = s
C31_AppendOnly ==
    [][ /\ last'.op \in {"add_path", "register"} => IsPrefix(_plugins, _plugins')
        /\ (last'.op = "add_path" /\ ~last'.raised) =>
              \A mechanism \in Mechanisms :
                  (Registered(_add_pathed_paths', last'.path)
                      => mechanism = MechanismOf(_add_pathed_paths', last'.path))
                  => add_path(Registry, last'.path, mechanism).ret
                        = Len(_plugins') - Len(_plugins)
        /\ Len(_plugins') < Len(_plugins) =>
              last'.op \in {"clear", "reload", "remove_path"}
      ]_vars
\* add_path has appended to a registry that held entries
C31_Witness ==
    /\ last.op = "add_path"
    /\ ~last.raised
    /\ last.before > 0
    /\ Len(_plugins) > last.before

(***************************************************************************)
(* C32: with a versioning rule configured, versions and request agree in   *)
(* every reachable state.  For every identifier of identifiers() and every *)
(* value v of versions(identifier), request(identifier, v) returns an      *)
(* entry with that identifier and version v; request(identifier) returns   *)
(* an entry whose version is the last, largest element of                  *)
(* versions(identifier).  The answers the queries gave agree likewise.     *)
(***************************************************************************)
\* request(id, v) gives an entry of the registry with identifier id and
\* version v
Gives(id, v) ==
    /\ request(id, v) \in SeqToSet(_plugins)
    /\ get_identifier(request(id, v)) = id
    /\ get_version(request(id, v)) = v
C32_VersionsAgreeWithRequest ==
    _version # None =>
        /\ \A id \in identifiers :
              /\ versions(id) # << >>
              /\ \A v \in SeqToSet(versions(id)) : Gives(id, v)
              /\ request(id, NoCount) \in SeqToSet(_plugins)
              /\ get_identifier(request(id, NoCount)) = id
              /\ get_version(request(id, NoCount)) = versions(id)[Len(versions(id))]
              /\ \A v \in SeqToSet(versions(id)) :
                    v <= versions(id)[Len(versions(id))]
        /\ last.op = "versions" => \A v \in SeqToSet(last.list) : Gives(last.id, v)
        /\ (last.op = "request" /\ last.version = NoCount /\ last.obj # NoPlugin) =>
              get_version(last.obj) = versions(last.id)[Len(versions(last.id))]
\* versions has listed two versions of one identifier
C32_Witness ==
    /\ _version # None
    /\ last.op = "versions"
    /\ Len(last.list) = 2
    /\ last.list[1] < last.list[2]
    /\ \A v \in SeqToSet(last.list) : get_version(request(last.id, v)) = v

====
